---------------------------- MODULE Spec2Model ----------------------------
(***************************************************************************)
(* The signalling and session-lifecycle manager (WebRTCManager) of the     *)
(* cockpit video client, as a state machine.                               *)
(*                                                                         *)
(* Every callback of the manager (channel open, timer fire, signalling     *)
(* answer, session closure, selection change, close) is one atomic action: *)
(* JavaScript runs each callback to completion.  The manager's methods     *)
(* are operators from a state record to a state record, so that a handler  *)
(* that calls other methods is the composition of their operators.         *)
(*                                                                         *)
(* The Signaller and the Session classes are used by the manager but are   *)
(* not part of the sources at hand; they are modelled from the prose       *)
(* specification (request/response pairs, one-shot answer parsers, an      *)
(* end() that releases the session).                                       *)
(***************************************************************************)
EXTENDS Integers, Sequences, FiniteSets, Bags

---------------------------------------------------------------------------
(* Bounds of the model *)

\* requests awaiting their answer at a time at most
MaxPending == 3
\* consumer ids in use at a time at most (an id no one holds any more is issued again)
MaxConsumerIds == 2
\* session ids in use at a time at most
MaxSessionIds == 2

---------------------------------------------------------------------------
(* Values *)

\* consumerId === undefined
NoConsumer == 0

\* a Stream | undefined
NoStream == [id |-> 0, name |-> "undefined"]
Cam == [id |-> 1, name |-> "cam"]
Cam2 == [id |-> 2, name |-> "cam2"]
Streams == {Cam, Cam2}

\* what the caller may select: a stream, nothing, or an entry that has the id
\* of Cam under another name
CamRenamed == [id |-> 1, name |-> "front"]
Selections == Streams \cup {NoStream, CamRenamed}

\* the catalogs a discovery answer may carry
Catalogs == {<<Cam>>, <<Cam, Cam2>>}

\* session === undefined
NoSession == [id |-> 0, consumerId |-> NoConsumer, stream |-> NoStream]

\* negotiation messages from the producer: two connectivity candidates and the
\* session description
Candidates == {"c1", "c2"}
Description == "d"

\* the negotiation state of a new Session (and of none): the messages it has
\* received, the candidates it has buffered, what its transport has been given
NoNegotiation ==
    [received |-> <<>>, pendingCandidates |-> <<>>, transport |-> <<>>]

VARIABLES
    \* WebRTCManager fields
    availableStreams,
    consumerId,
    streamName,
    session,
    hasEnded,
    waitingForAvailableStreamsAnswer,
    waitingForSessionStart,
    \* pending window.setTimeout callbacks
    streamsTimers,
    sessionTimers,
    \* the caller's selectedStream ref
    selectedStream,
    \* Signaller: channel and registered parsers
    channel,
    streamsParsers,
    endSessionParsers,
    negotiationParsers,
    \* the negotiation state of the Sessions constructed and not ended, by
    \* session id
    sessionObjs,
    \* signalling service: unanswered requests, and the consumer registered last
    \* over the present connection
    consumerReqs,
    streamsReqs,
    sessionReqs,
    serverConsumers,
    \* the ids of the Session objects constructed and neither ended nor failed
    liveSessions,
    \* requests the last callback handed to the Signaller
    out,
    \* the session ids of the Sessions that sent their local description back in
    \* the last callback
    negotiationOut

vars == <<availableStreams, consumerId, streamName, session, hasEnded,
          waitingForAvailableStreamsAnswer, waitingForSessionStart,
          streamsTimers, sessionTimers, selectedStream,
          channel, streamsParsers, endSessionParsers,
          negotiationParsers, sessionObjs,
          consumerReqs, streamsReqs, sessionReqs,
          serverConsumers, liveSessions, out, negotiationOut>>

\* close() has been called: only close() ends the channel
closeCalled == channel = "ended"

\* the state a callback starts from; it has sent nothing yet
St ==
    [availableStreams |-> availableStreams,
     consumerId |-> consumerId,
     streamName |-> streamName,
     session |-> session,
     hasEnded |-> hasEnded,
     waitingForAvailableStreamsAnswer |-> waitingForAvailableStreamsAnswer,
     waitingForSessionStart |-> waitingForSessionStart,
     streamsTimers |-> streamsTimers,
     sessionTimers |-> sessionTimers,
     selectedStream |-> selectedStream,
     channel |-> channel,
     streamsParsers |-> streamsParsers,
     endSessionParsers |-> endSessionParsers,
     negotiationParsers |-> negotiationParsers,
     sessionObjs |-> sessionObjs,
     consumerReqs |-> consumerReqs,
     streamsReqs |-> streamsReqs,
     sessionReqs |-> sessionReqs,
     serverConsumers |-> serverConsumers,
     liveSessions |-> liveSessions,
     out |-> {},
     negotiationOut |-> {}]

\* the state a callback leaves, within the bounds of the model
Commit(s0) ==
    \E s \in {s0} :
    /\ s.consumerReqs + s.streamsReqs + BagCardinality(s.sessionReqs) <= MaxPending
    /\ availableStreams' = s.availableStreams
    /\ consumerId' = s.consumerId
    /\ streamName' = s.streamName
    /\ session' = s.session
    /\ hasEnded' = s.hasEnded
    /\ waitingForAvailableStreamsAnswer' = s.waitingForAvailableStreamsAnswer
    /\ waitingForSessionStart' = s.waitingForSessionStart
    /\ streamsTimers' = s.streamsTimers
    /\ sessionTimers' = s.sessionTimers
    /\ selectedStream' = s.selectedStream
    /\ channel' = s.channel
    /\ streamsParsers' = s.streamsParsers
    /\ endSessionParsers' = s.endSessionParsers
    /\ negotiationParsers' = s.negotiationParsers
    /\ sessionObjs' = s.sessionObjs
    /\ consumerReqs' = s.consumerReqs
    /\ streamsReqs' = s.streamsReqs
    /\ sessionReqs' = s.sessionReqs
    /\ serverConsumers' = s.serverConsumers
    /\ liveSessions' = s.liveSessions
    /\ out' = s.out
    /\ negotiationOut' = s.negotiationOut

---------------------------------------------------------------------------
(* Signaller and Session, from the prose specification *)

PeerIdQuestion == [type |-> "peerId", consumerId |-> NoConsumer, stream |-> NoStream]
AvailableStreamsQuestion ==
    [type |-> "availableStreams", consumerId |-> NoConsumer, stream |-> NoStream]
StartSessionQuestion(consumer, stream) ==
    [type |-> "startSession", consumerId |-> consumer, stream |-> stream]

\* Signaller.requestConsumerId: fails when the channel is not open
requestConsumerId(s) ==
    IF s.channel = "open"
    THEN [s EXCEPT !.consumerReqs = @ + 1, !.out = @ \cup {PeerIdQuestion}]
    ELSE s

\* Signaller.requestStreams: the question reaches the service over an open channel
requestStreams(s) ==
    [s EXCEPT !.streamsReqs = IF s.channel = "open" THEN @ + 1 ELSE @,
              !.out = @ \cup {AvailableStreamsQuestion}]

\* Signaller.parseAvailableStreamsAnswer: registers a one-shot answer parser
parseAvailableStreamsAnswer(s) ==
    [s EXCEPT !.streamsParsers = @ + 1]

\* Signaller.requestSessionId: one request/response pair per call
requestSessionId(s, consumer, stream) ==
    LET q == StartSessionQuestion(consumer, stream) IN
    [s EXCEPT !.sessionReqs = IF s.channel = "open" THEN @ (+) SetToBag({q}) ELSE @,
              !.out = @ \cup {q}]

\* Signaller.parseEndSessionQuestion: a one-shot filter for the session's triple
parseEndSessionQuestion(s, sess) ==
    [s EXCEPT !.endSessionParsers = @ \cup {sess.id}]

\* Signaller.end: terminates the channel; what was in flight is lost
signallerEnd(s) ==
    [s EXCEPT !.channel = "ended",
              !.consumerReqs = 0,
              !.streamsReqs = 0,
              !.sessionReqs = EmptyBag,
              !.serverConsumers = {}]

\* The service issues ids that nobody holds: the smallest one, so that an id is
\* issued again only after every holder of it has gone.
ConsumerIdsHeld ==
    {consumerId} \cup serverConsumers
        \cup {q.consumerId : q \in BagToSet(sessionReqs)}
FreeConsumerIds == (1..MaxConsumerIds) \ ConsumerIdsHeld
SessionIdsHeld == {session.id} \cup liveSessions
FreeSessionIds == (1..MaxSessionIds) \ SessionIdsHeld
Smallest(ids) == CHOOSE i \in ids : \A j \in ids : i <= j

\* Signaller.parseNegotiation: a filter for the session's triple; subscribing
\* again for the same triple replaces the filter
parseNegotiation(s, sess) ==
    [s EXCEPT !.negotiationParsers = @ \cup {sess.id}]

\* new Session(...)
newSession(s, sess) ==
    [s EXCEPT !.liveSessions = @ \cup {sess.id},
              !.sessionObjs[sess.id] = NoNegotiation]

\* a Session is gone: its transport is released and its filters deregistered
sessionReleased(s, id) ==
    [s EXCEPT !.liveSessions = @ \ {id},
              !.endSessionParsers = @ \ {id},
              !.negotiationParsers = @ \ {id},
              !.sessionObjs[id] = NoNegotiation]

\* Session.end: idempotent
sessionEnd(s, sess) == sessionReleased(s, sess.id)

\* the elements of a sequence
Range(seq) == {seq[i] : i \in 1..Len(seq)}

\* onIncomingICE handing every candidate to the transport at once
onIncomingICE_ApplyAtOnce(s, id, candidate) ==
    [s EXCEPT !.sessionObjs[id].received = Append(@, candidate),
              !.sessionObjs[id].transport = Append(@, candidate)]

\* Session.onIncomingICE: buffered until the remote description has arrived
onIncomingICE(s, id, candidate) ==
    IF Description \in Range(s.sessionObjs[id].transport)
    THEN [s EXCEPT !.sessionObjs[id].received = Append(@, candidate),
                   !.sessionObjs[id].transport = Append(@, candidate)]
    ELSE [s EXCEPT !.sessionObjs[id].received = Append(@, candidate),
                   !.sessionObjs[id].pendingCandidates = Append(@, candidate)]

\* Session.onIncomingSDP: sets the remote description, flushes the buffered
\* candidates in order, and sends the local description back for the triple
\* the Session was constructed with
onIncomingSDP(s, id) ==
    [s EXCEPT !.sessionObjs[id].received = Append(@, Description),
              !.sessionObjs[id].transport =
                  (@ \o <<Description>>) \o s.sessionObjs[id].pendingCandidates,
              !.sessionObjs[id].pendingCandidates = <<>>,
              !.negotiationOut = @ \cup {id}]

---------------------------------------------------------------------------
(* WebRTCManager *)

\* availableStreams.value.find((s) => s.name === streamName)
RECURSIVE find(_, _)
find(streams, name) ==
    IF streams = <<>> THEN NoStream
    ELSE IF Head(streams).name = name THEN Head(streams)
    ELSE find(Tail(streams), name)

\* updateStreamsAvailable without its in-flight guard
updateStreamsAvailable_Unguarded(s) ==
    IF s.hasEnded THEN [s EXCEPT !.waitingForAvailableStreamsAnswer = FALSE]
    ELSE [s EXCEPT !.waitingForAvailableStreamsAnswer = TRUE,
                   !.streamsTimers = @ + 1]

updateStreamsAvailable(s) ==
    IF s.waitingForAvailableStreamsAnswer THEN requestStreams(s)
    ELSE IF s.hasEnded THEN [s EXCEPT !.waitingForAvailableStreamsAnswer = FALSE]
    ELSE [s EXCEPT !.waitingForAvailableStreamsAnswer = TRUE,
                   !.streamsTimers = @ + 1]

\* the callback of the timeout set by updateStreamsAvailable
streamsTimeout(s) ==
    IF ~s.waitingForAvailableStreamsAnswer THEN s
    ELSE requestStreams(parseAvailableStreamsAnswer(s))

\* the parser adding the answer to the catalog instead of replacing it
onAvailableStreams_Appends(s, streams) ==
    IF ~s.waitingForAvailableStreamsAnswer THEN s
    ELSE updateStreamsAvailable(
            [s EXCEPT !.waitingForAvailableStreamsAnswer = FALSE,
                      !.availableStreams = @ \o streams])

\* the parser registered by streamsTimeout
onAvailableStreams(s, streams) ==
    IF ~s.waitingForAvailableStreamsAnswer THEN s
    ELSE updateStreamsAvailable(
            [s EXCEPT !.waitingForAvailableStreamsAnswer = FALSE,
                      !.availableStreams = streams])

\* the consumer-id callback registered by startConsumer
onConsumerIdReceived(s, newConsumerId) ==
    [s EXCEPT !.consumerId = newConsumerId]

startConsumer(s) ==
    LET s1 == [s EXCEPT !.hasEnded = FALSE]
        s2 == IF s1.consumerId = NoConsumer THEN requestConsumerId(s1) ELSE s1
    IN updateStreamsAvailable([s2 EXCEPT !.availableStreams = <<>>])

\* stopSession setting the ended flag also when there is no Session
stopSession_AlwaysEnds(s) ==
    IF s.session = NoSession THEN [s EXCEPT !.hasEnded = TRUE]
    ELSE [sessionEnd(s, s.session) EXCEPT !.session = NoSession, !.hasEnded = TRUE]

stopSession(s) ==
    IF s.session = NoSession THEN s
    ELSE [sessionEnd(s, s.session) EXCEPT !.session = NoSession, !.hasEnded = TRUE]

requestSession(s, stream, consumer) ==
    [requestSessionId(s, consumer, stream) EXCEPT !.hasEnded = FALSE]

\* startSession without its in-flight guard
startSession_Unguarded(s) ==
    [s EXCEPT !.waitingForSessionStart = TRUE, !.sessionTimers = @ + 1]

startSession(s) ==
    IF s.waitingForSessionStart THEN s
    ELSE [s EXCEPT !.waitingForSessionStart = TRUE, !.sessionTimers = @ + 1]

\* the timeout callback giving up on a miss instead of scheduling a new attempt
sessionTimeout_NoRetryOnMiss(s) ==
    IF ~s.waitingForSessionStart THEN s
    ELSE LET stream == find(s.availableStreams, s.streamName) IN
         IF stream = NoStream
         THEN [s EXCEPT !.waitingForSessionStart = FALSE]
         ELSE IF s.consumerId = NoConsumer
         THEN startSession(startConsumer(s))
         ELSE [requestSession(s, stream, s.consumerId)
                  EXCEPT !.waitingForSessionStart = FALSE]

\* the timeout callback without its check of consumerId
sessionTimeout_NoConsumerCheck(s) ==
    IF ~s.waitingForSessionStart THEN s
    ELSE LET stream == find(s.availableStreams, s.streamName) IN
         IF stream = NoStream
         THEN startSession([s EXCEPT !.waitingForSessionStart = FALSE])
         ELSE [requestSession(s, stream, s.consumerId)
                  EXCEPT !.waitingForSessionStart = FALSE]

\* the callback of the timeout set by startSession
sessionTimeout(s) ==
    IF ~s.waitingForSessionStart THEN s
    ELSE LET stream == find(s.availableStreams, s.streamName) IN
         IF stream = NoStream
         THEN startSession([s EXCEPT !.waitingForSessionStart = FALSE])
         ELSE IF s.consumerId = NoConsumer
         THEN startSession(startConsumer(s))
         ELSE [requestSession(s, stream, s.consumerId)
                  EXCEPT !.waitingForSessionStart = FALSE]

\* onSessionClosed keeping the consumer id
onSessionClosed_KeepsConsumerId(s) ==
    startSession(startConsumer(stopSession(s)))

onSessionClosed(s) ==
    startSession(startConsumer([stopSession(s) EXCEPT !.consumerId = NoConsumer]))

\* onSessionIdReceived constructing the Session without the consumer id
onSessionIdReceived_NoConsumerId(s, stream, receivedSessionId) ==
    LET sess == [id |-> receivedSessionId, consumerId |-> NoConsumer,
                 stream |-> stream]
    IN parseNegotiation(
          parseEndSessionQuestion([newSession(s, sess) EXCEPT !.session = sess], sess),
          sess)

onSessionIdReceived(s, stream, receivedSessionId) ==
    LET sess == [id |-> receivedSessionId, consumerId |-> s.consumerId,
                 stream |-> stream]
    IN parseNegotiation(
          parseEndSessionQuestion([newSession(s, sess) EXCEPT !.session = sess], sess),
          sess)

\* the end-session callback registered by onSessionIdReceived
onEndSession(s) ==
    [s EXCEPT !.session = NoSession, !.hasEnded = TRUE]

\* the watch callback of startStream
onSelectedStreamChange(s, newStream, oldStream) ==
    IF newStream.id = oldStream.id THEN s
    ELSE LET s1 == IF oldStream # NoStream THEN stopSession(s) ELSE s IN
         IF newStream # NoStream
         THEN startSession([s1 EXCEPT !.streamName = newStream.name])
         ELSE s1

close(s) ==
    [signallerEnd(stopSession(s)) EXCEPT !.hasEnded = TRUE]

---------------------------------------------------------------------------
(* Initial state: the manager constructed, startStream called *)

Init ==
    /\ availableStreams = <<>>
    /\ consumerId = NoConsumer
    /\ streamName = "undefined"
    /\ session = NoSession
    /\ hasEnded = FALSE
    /\ waitingForAvailableStreamsAnswer = FALSE
    /\ waitingForSessionStart = FALSE
    /\ streamsTimers = 0
    /\ sessionTimers = 0
    /\ selectedStream = NoStream
    /\ channel = "connecting"
    /\ streamsParsers = 0
    /\ endSessionParsers = {}
    /\ negotiationParsers = {}
    /\ sessionObjs = [id \in 1..MaxSessionIds |-> NoNegotiation]
    /\ consumerReqs = 0
    /\ streamsReqs = 0
    /\ sessionReqs = EmptyBag
    /\ serverConsumers = {}
    /\ liveSessions = {}
    /\ out = {}
    /\ negotiationOut = {}

---------------------------------------------------------------------------
(* Actions: one per callback *)

\* the channel opens (the first time, or after a loss): onOpen
ChannelOpen ==
    /\ channel = "connecting"
    /\ Commit(startConsumer([St EXCEPT !.channel = "open"]))

\* the channel is lost; the Signaller reconnects; what was in flight is lost
ChannelLoss ==
    /\ channel = "open"
    /\ Commit([St EXCEPT !.channel = "connecting",
                         !.consumerReqs = 0,
                         !.streamsReqs = 0,
                         !.sessionReqs = EmptyBag,
                         !.serverConsumers = {}])

\* the caller calls close(reason)
Close ==
    /\ ~closeCalled
    /\ Commit(close(St))

\* the caller changes the selected stream
Select(newStream) ==
    /\ ~closeCalled
    /\ newStream # selectedStream
    /\ Commit(onSelectedStreamChange([St EXCEPT !.selectedStream = newStream],
                                     newStream, selectedStream))

\* the service answers a registration with a new consumer id
ConsumerIdAnswer ==
    /\ channel = "open"
    /\ consumerReqs > 0
    /\ FreeConsumerIds # {}
    /\ Commit(onConsumerIdReceived(
                [St EXCEPT !.consumerReqs = @ - 1,
                           !.serverConsumers = {Smallest(FreeConsumerIds)}],
                Smallest(FreeConsumerIds)))

\* the discovery timeout fires
StreamsTimerFire ==
    /\ streamsTimers > 0
    /\ Commit(streamsTimeout([St EXCEPT !.streamsTimers = @ - 1]))

\* the service answers a listSources question
AvailableStreamsAnswer(streams) ==
    /\ channel = "open"
    /\ streamsReqs > 0
    /\ IF streamsParsers > 0
       THEN Commit(onAvailableStreams([St EXCEPT !.streamsReqs = @ - 1,
                                                 !.streamsParsers = @ - 1],
                                      streams))
       ELSE Commit([St EXCEPT !.streamsReqs = @ - 1])

\* the session-start timeout fires
SessionTimerFire ==
    /\ sessionTimers > 0
    /\ Commit(sessionTimeout([St EXCEPT !.sessionTimers = @ - 1]))

\* the service answers a session request with a new session id
SessionIdAnswer ==
    /\ channel = "open"
    /\ FreeSessionIds # {}
    /\ \E q \in BagToSet(sessionReqs) :
          Commit(onSessionIdReceived([St EXCEPT !.sessionReqs = @ (-) SetToBag({q})],
                                     q.stream, Smallest(FreeSessionIds)))

\* the service answers a session request without a session id
SessionRequestError ==
    /\ channel = "open"
    /\ \E q \in BagToSet(sessionReqs) :
          Commit([St EXCEPT !.sessionReqs = @ (-) SetToBag({q})])

\* the transport of a session fails: the Session invokes onClosed
TransportFailure ==
    \E id \in liveSessions :
        Commit(onSessionClosed(sessionReleased(St, id)))

\* the service sends an end-session notice for a session
EndSessionQuestion ==
    /\ channel = "open"
    /\ \E id \in endSessionParsers \cap liveSessions :
          Commit(onEndSession([St EXCEPT !.endSessionParsers = @ \ {id}]))

\* a connectivity candidate for a session arrives: the filter registered for
\* the session hands it to the Session, and with no filter it is dropped
IncomingCandidate(id, candidate) ==
    /\ channel = "open"
    /\ candidate \notin Range(sessionObjs[id].received)
    /\ IF id \in negotiationParsers
       THEN Commit(onIncomingICE(St, id, candidate))
       ELSE Commit(St)

\* the remote description for a session arrives
IncomingDescription(id) ==
    /\ channel = "open"
    /\ Description \notin Range(sessionObjs[id].received)
    /\ IF id \in negotiationParsers
       THEN Commit(onIncomingSDP(St, id))
       ELSE Commit(St)

Next ==
    \/ ChannelOpen
    \/ ChannelLoss
    \/ Close
    \/ \E newStream \in Selections : Select(newStream)
    \/ ConsumerIdAnswer
    \/ StreamsTimerFire
    \/ \E streams \in Catalogs : AvailableStreamsAnswer(streams)
    \/ SessionTimerFire
    \/ SessionIdAnswer
    \/ SessionRequestError
    \/ TransportFailure
    \/ EndSessionQuestion

Spec == Init /\ [][Next]_vars

---------------------------------------------------------------------------
(* Scenario B: a session is active, the service keeps answering, the catalog *)
(* keeps the selected source, the caller leaves the selection alone.         *)

\* the state of the fault-free path once the session for "cam" is active
ActiveInit ==
    /\ availableStreams = <<Cam>>
    /\ consumerId = 1
    /\ streamName = "cam"
    /\ session = [id |-> 1, consumerId |-> 1, stream |-> Cam]
    /\ hasEnded = FALSE
    /\ waitingForAvailableStreamsAnswer = TRUE
    /\ waitingForSessionStart = FALSE
    /\ streamsTimers = 1
    /\ sessionTimers = 0
    /\ selectedStream = Cam
    /\ channel = "open"
    /\ streamsParsers = 0
    /\ endSessionParsers = {1}
    /\ negotiationParsers = {1}
    /\ sessionObjs = [id \in 1..MaxSessionIds |-> NoNegotiation]
    /\ consumerReqs = 0
    /\ streamsReqs = 0
    /\ sessionReqs = EmptyBag
    /\ serverConsumers = {1}
    /\ liveSessions = {1}
    /\ out = {}
    /\ negotiationOut = {}

NextRecovery ==
    \/ ConsumerIdAnswer
    \/ StreamsTimerFire
    \/ \E streams \in Catalogs : AvailableStreamsAnswer(streams)
    \/ SessionTimerFire
    \/ SessionIdAnswer
    \/ TransportFailure

\* timers fire and the service answers every request
RecoverySpec ==
    /\ ActiveInit
    /\ [][NextRecovery]_vars
    /\ WF_vars(ConsumerIdAnswer)
    /\ WF_vars(StreamsTimerFire)
    /\ WF_vars(\E streams \in Catalogs : AvailableStreamsAnswer(streams))
    /\ WF_vars(SessionTimerFire)
    /\ WF_vars(SessionIdAnswer)

---------------------------------------------------------------------------
(* Negotiation: no channel loss, no transport failure, no end-session notice, *)
(* no close(); the producer sends its candidates and its description.         *)

NextNegotiation ==
    \/ ChannelOpen
    \/ \E newStream \in Selections : Select(newStream)
    \/ ConsumerIdAnswer
    \/ StreamsTimerFire
    \/ \E streams \in Catalogs : AvailableStreamsAnswer(streams)
    \/ SessionTimerFire
    \/ SessionIdAnswer
    \/ \E id \in 1..MaxSessionIds, candidate \in Candidates :
          IncomingCandidate(id, candidate)
    \/ \E id \in 1..MaxSessionIds : IncomingDescription(id)

NegotiationSpec == Init /\ [][NextNegotiation]_vars

\* Scenario A: the fault-free path, on which the caller makes one selection
FirstSelect ==
    /\ selectedStream = NoStream
    /\ \E newStream \in Streams : Select(newStream)

NextScenarioA ==
    \/ ChannelOpen
    \/ FirstSelect
    \/ ConsumerIdAnswer
    \/ StreamsTimerFire
    \/ \E streams \in Catalogs : AvailableStreamsAnswer(streams)
    \/ SessionTimerFire
    \/ SessionIdAnswer
    \/ \E id \in 1..MaxSessionIds, candidate \in Candidates :
          IncomingCandidate(id, candidate)
    \/ \E id \in 1..MaxSessionIds : IncomingDescription(id)

ScenarioASpec == Init /\ [][NextScenarioA]_vars

---------------------------------------------------------------------------
(* Properties *)

SessionRequestsIn(msgs) == {q \in msgs : q.type = "startSession"}

\* the session-start guard is set and no timeout is left to clear it
SessionStartStuck == waitingForSessionStart /\ sessionTimers = 0

\* once the guard is stuck it stays stuck, and no session request is sent
StuckForever ==
    [][SessionStartStuck => SessionStartStuck' /\ SessionRequestsIn(out') = {}]_vars

\* C1 (as stated): at most one listSources request is outstanding (sent and not
\* yet answered) at any time.
C1_AtMostOneListSourcesOutstanding == streamsReqs <= 1

\* C1 (amended): at most one discovery poll is in progress at any time: the
\* pending discovery timeouts and the registered answer parsers number at most one.
C1_AtMostOneDiscoveryPoll == streamsTimers + streamsParsers <= 1

\* C1 witness: a poll awaits its answer while a second listSources request,
\* sent by startConsumer, is outstanding.
C1_Witness == streamsParsers = 1 /\ streamsReqs = 2

\* C2: once close() has been called, no session request is sent and no Session
\* exists, also when a session-start timeout was pending at the time of close().
C2_NoSessionRequestAfterClose ==
    closeCalled => SessionRequestsIn(out) = {} /\ session = NoSession

\* C3: no Session is created for a source that is not the currently desired one:
\* the answer to a session request for a source the caller has since left is discarded.
C3_StaleSessionAnswerDiscarded ==
    [][session' # session /\ session' # NoSession
          => session'.stream.name = streamName']_vars

\* C4: at most one Session that was created and not yet ended exists.
C4_AtMostOneLiveSession == Cardinality(liveSessions) <= 1

\* C5: when a session-start attempt fires with the desired source in the catalog
\* and consumerId undefined, no session request is sent, a registration is
\* requested, and the session request is retried: a new attempt is pending.
C5_RetriesAfterMissingConsumerId ==
    [][SessionTimerFire /\ waitingForSessionStart
            /\ find(availableStreams, streamName) # NoStream
            /\ consumerId = NoConsumer
          => /\ SessionRequestsIn(out') = {}
             /\ channel = "open" => PeerIdQuestion \in out'
             /\ sessionTimers' > 0]_vars

\* C6: after an active Session reports closure, the manager clears consumerId,
\* re-registers, rediscovers and eventually sends a new session request for the
\* same selected name.
C6_RequestsSessionAgainAfterClosure ==
    (session = NoSession /\ consumerId = NoConsumer)
        ~> (\E q \in SessionRequestsIn(out) : q.stream.name = streamName)

\* C7: unless close() has been called, with a source selected and available and
\* a responsive service, a Session eventually becomes active again after any loss.
C7_EventuallyActiveAgain ==
    [](selectedStream # NoStream /\ ~closeCalled => <>(session # NoSession))

\* C8: as long as close() has not been called, every discovery answer is followed
\* by another poll: when the answer parser has run, a discovery timeout is pending.
C8_DiscoveryPollRescheduled ==
    [][streamsParsers' < streamsParsers /\ ~closeCalled' => streamsTimers' > 0]_vars

\* C9: the ended flag is terminal: in every state after close() it is set.
C9_EndedFlagTerminal == closeCalled => hasEnded

\* C10: consumerId is reset when the channel is lost: the manager never holds,
\* and never sends a session request with, a consumer id that was not obtained
\* over the present connection.
C10_ConsumerIdOfPresentConnection ==
    ~closeCalled =>
        /\ consumerId = NoConsumer \/ consumerId \in serverConsumers
        /\ \A q \in SessionRequestsIn(out) : q.consumerId \in serverConsumers

\* C11 (as stated): from the moment a session-start attempt is scheduled until its
\* session request has been answered or abandoned, no second session request is
\* sent: at most one session request is outstanding.
C11_AtMostOneSessionRequestOutstanding == BagCardinality(sessionReqs) <= 1

\* C11 (amended): at most one session-start timeout is pending at any time, and
\* the in-flight flag is set while it is pending.
C11_AtMostOneSessionStartTimeout ==
    /\ sessionTimers <= 1
    /\ sessionTimers = 1 => waitingForSessionStart

\* C11 witness: a session-start attempt is pending while the session request of
\* an earlier attempt is still unanswered.
C11_Witness ==
    sessionTimers = 1 /\ waitingForSessionStart /\ sessionReqs # EmptyBag

\* C12: when a session-start attempt fires and the catalog has no source of the
\* desired name, no session request is sent and a new attempt is pending with
\* the in-flight flag set for it; and every session request that is sent is for
\* a catalog entry whose name is the desired name at that moment.
C12_MissReschedulesAndRequestsMatch ==
    [][/\ SessionTimerFire /\ waitingForSessionStart
             /\ find(availableStreams, streamName) = NoStream
          => /\ SessionRequestsIn(out') = {}
             /\ sessionTimers' = 1
             /\ waitingForSessionStart'
       /\ \A q \in SessionRequestsIn(out') :
             /\ q.stream.name = streamName
             /\ \E i \in 1..Len(availableStreams) : availableStreams[i] = q.stream]_vars

\* C12 witness: the consumer is registered, a source is desired that the catalog
\* at hand does not hold, nothing was sent and an attempt is pending.
C12_Witness ==
    /\ streamName = "cam2"
    /\ availableStreams = <<Cam>>
    /\ find(availableStreams, streamName) = NoStream
    /\ consumerId # NoConsumer
    /\ waitingForSessionStart /\ sessionTimers = 1
    /\ out = {}

\* C18: no session request is sent while consumerId is undefined: every session
\* request carries a consumer id issued by a registration.
C18_SessionRequestCarriesConsumerId ==
    \A q \in SessionRequestsIn(out) : q.consumerId \in 1..MaxConsumerIds

\* C18 witness: a session request has just been sent.
C18_Witness ==
    \E q \in SessionRequestsIn(out) : q.consumerId = consumerId /\ consumerId # NoConsumer

\* C14: when the selection changes to one of a different id, the active Session
\* (if a source was selected before) is ended and the session reference cleared,
\* and if the new selection is defined the desired name becomes its name and a
\* session-start attempt is begun; a change that keeps the id has no effect.
C14_SelectionChange ==
    [][\A newStream \in Selections :
          Select(newStream) =>
            IF newStream.id = selectedStream.id
            THEN /\ streamName' = streamName /\ session' = session
                 /\ liveSessions' = liveSessions
                 /\ sessionTimers' = sessionTimers
                 /\ waitingForSessionStart' = waitingForSessionStart
                 /\ out' = {}
            ELSE /\ selectedStream # NoStream /\ session # NoSession
                     => session' = NoSession /\ session.id \notin liveSessions'
                 /\ newStream # NoStream
                     => /\ streamName' = newStream.name
                        /\ waitingForSessionStart' /\ sessionTimers' = 1]_vars

\* C15: the manager never drops its reference to a Session without ending it:
\* on an explicit stop, on a remote end-session notice and on supersession by a
\* new Session, the Session that was referenced has been ended.
C15_NoSessionDroppedWithoutEnd ==
    [][session # NoSession /\ session' # session
          => session.id \notin liveSessions']_vars

\* C20: when onSessionClosed returns, the manager has no session reference and
\* no consumerId, the previous Session has been ended, a registration request
\* has been issued (over an open channel), the catalog is empty, and a discovery
\* poll and a session-start attempt are under way.
C20_OnSessionClosedRestarts ==
    [][TransportFailure
          => /\ session' = NoSession
             /\ consumerId' = NoConsumer
             /\ session.id \notin liveSessions'
             /\ channel = "open" => PeerIdQuestion \in out'
             /\ availableStreams' = <<>>
             /\ waitingForAvailableStreamsAnswer'
             /\ streamsTimers' + streamsParsers' = 1
             /\ waitingForSessionStart' /\ sessionTimers' = 1]_vars

\* C13: on the fault-free path the Session is created with the consumer id the
\* registration returned, the catalog entry of the selected name and the session
\* id the session request returned, and the local description is sent back by
\* that Session, for that triple, when its remote description arrives.
C13_FaultFreePathTriple ==
    /\ session # NoSession =>
          /\ session.consumerId = consumerId
          /\ session.consumerId \in serverConsumers
          /\ session.stream = selectedStream
          /\ session.stream.name = streamName
          /\ session.stream \in Streams
          /\ liveSessions = {session.id}
    /\ \A id \in negotiationOut :
          /\ session # NoSession /\ id = session.id
          /\ Description \in Range(sessionObjs[id].transport)

\* C13 witness: the Session for cam, source 1, consumer 1 has been given the
\* remote description and has sent its local description back.
C13_Witness ==
    /\ session = [id |-> 1, consumerId |-> 1, stream |-> Cam]
    /\ negotiationOut = {1}
    /\ sessionObjs[1].transport = <<Description>>

\* the transport of a Session has been given the description first, then the
\* candidates in the order they were received; before the description it has
\* been given nothing and the candidates received are buffered in order
RECURSIVE CandidatesOf(_)
CandidatesOf(seq) ==
    IF seq = <<>> THEN <<>>
    ELSE IF Head(seq) \in Candidates THEN <<Head(seq)>> \o CandidatesOf(Tail(seq))
    ELSE CandidatesOf(Tail(seq))

\* C16: within one Session, candidates received before the remote description
\* are buffered and reach the transport only after the description, in receive
\* order; candidates received after it are applied at once.
C16_CandidatesAfterDescriptionInOrder ==
    \A id \in 1..MaxSessionIds :
        LET o == sessionObjs[id] IN
        IF Description \in Range(o.received)
        THEN /\ o.transport = <<Description>> \o CandidatesOf(o.received)
             /\ o.pendingCandidates = <<>>
        ELSE /\ o.transport = <<>>
             /\ o.pendingCandidates = o.received

\* C16 witness: c1 and c2 were received before the description d, and the
\* transport was given d, c1, c2.
C16_Witness ==
    \E id \in 1..MaxSessionIds :
        /\ sessionObjs[id].received = <<"c1", "c2", Description>>
        /\ sessionObjs[id].transport = <<Description, "c1", "c2">>

\* C17: a negotiation message for a session id other than that of the manager's
\* Session changes no Session: messages for a stopped or superseded Session are
\* dropped.
C17_MessageForOtherSessionDropped ==
    [][\A id \in 1..MaxSessionIds :
          /\ \/ IncomingDescription(id)
             \/ \E candidate \in Candidates : IncomingCandidate(id, candidate)
          /\ id # session.id
          => sessionObjs' = sessionObjs /\ negotiationOut' = {}]_vars

\* C21 (as stated): consumerId is cleared whenever a session ends, also when it
\* is ended because the caller changed the selection.
C21_ConsumerIdClearedWheneverSessionEnds ==
    [][session # NoSession /\ session' = NoSession => consumerId' = NoConsumer]_vars

\* C21 (amended): consumerId is cleared by onSessionClosed and by nothing else:
\* when a Session reports closure the consumer id is cleared, and a selection
\* change, an end-session notice and close() leave it as it is.
C21_ConsumerIdClearedOnlyByOnSessionClosed ==
    [][/\ TransportFailure => consumerId' = NoConsumer
       /\ consumerId # NoConsumer /\ consumerId' = NoConsumer => TransportFailure]_vars

\* C21 witness: the caller has cleared the selection, the Session was ended by
\* stopSession, and the consumer id is still the registered one.
C21_Witness ==
    /\ selectedStream = NoStream /\ session = NoSession /\ hasEnded
    /\ liveSessions = {} /\ ~closeCalled
    /\ consumerId # NoConsumer /\ consumerId \in serverConsumers

\* C22: the session-start guard is never stuck: whenever waitingForSessionStart
\* is set, a session-start timeout is pending.
C22_NoStuckSessionStartGuard == waitingForSessionStart => sessionTimers > 0

\* the manager has not been started: the channel has never opened
NotStarted ==
    /\ channel = "connecting" /\ consumerId = NoConsumer /\ session = NoSession
    /\ streamsTimers = 0 /\ streamsParsers = 0 /\ availableStreams = <<>>

\* C23, first part, with a registered answer parser counted as a poll under
\* way: while close() has not been called, whenever
\* waitingForAvailableStreamsAnswer is set, a discovery timeout is pending or an
\* answer parser is registered.
C23_FlagSetMeansPollUnderWay ==
    ~closeCalled /\ waitingForAvailableStreamsAnswer
        => streamsTimers > 0 \/ streamsParsers > 0

\* C23: the discovery guard is never stuck; its second part: while close() has
\* not been called, whenever waitingForAvailableStreamsAnswer is clear and the
\* manager is started and not ended, a discovery poll has been rescheduled.
C23_FlagClearMeansRescheduled ==
    ~closeCalled /\ ~waitingForAvailableStreamsAnswer /\ ~hasEnded /\ ~NotStarted
        => streamsTimers > 0

\* C24: every Session is constructed with a defined consumer id, the one sent
\* in the session request whose answer created it, also when consumerId was
\* cleared or issued anew between the request and its answer.
C24_SessionHasConsumerIdOfItsRequest ==
    [][session' # session /\ session' # NoSession
          => /\ session'.consumerId # NoConsumer
             /\ StartSessionQuestion(session'.consumerId, session'.stream)
                    \in BagToSet(sessionReqs)]_vars

\* C25: after the caller has cleared the selection, and until a source is
\* selected again, no session request is sent and no Session is created, also
\* when a session-start attempt was scheduled when the selection was cleared.
C25_NothingStartedWithoutSelection ==
    [][selectedStream' = NoStream
          => /\ SessionRequestsIn(out') = {}
             /\ session' # session => session' = NoSession]_vars

\* C26: stopSession called when the manager holds no Session changes nothing,
\* and calling it twice has the effect of calling it once.
C26_StopSessionIdempotent ==
    /\ session = NoSession => stopSession(St) = St
    /\ stopSession(stopSession(St)) = stopSession(St)

\* C26 witness: the caller cleared a selection while no Session was held, and
\* the stopSession this called left the ended flag clear.
C26_Witness ==
    /\ selectedStream = NoStream /\ streamName # "undefined"
    /\ session = NoSession /\ liveSessions = {}
    /\ ~hasEnded /\ channel = "open"

\* C27: the catalog changes in two ways only: a discovery answer arriving while
\* a poll is awaited replaces it wholesale, and startConsumer empties it; an
\* answer arriving while no poll is awaited leaves the catalog and the in-flight
\* flag as they are and schedules nothing.
C27_CatalogChanges ==
    [][/\ \A streams \in Catalogs :
             AvailableStreamsAnswer(streams) =>
                IF waitingForAvailableStreamsAnswer /\ streamsParsers > 0
                THEN availableStreams' = streams
                ELSE /\ availableStreams' = availableStreams
                     /\ waitingForAvailableStreamsAnswer'
                            = waitingForAvailableStreamsAnswer
                     /\ streamsTimers' = streamsTimers
                     /\ out' = {}
       /\ availableStreams' # availableStreams =>
             \/ \E streams \in Catalogs : AvailableStreamsAnswer(streams)
             \/ /\ availableStreams' = <<>>
                /\ ChannelOpen \/ SessionTimerFire \/ TransportFailure]_vars

\* C27 witness: the loop has stopped with the catalog an answer delivered, and
\* a second listSources request is still to be answered.
C27_Witness ==
    /\ ~waitingForAvailableStreamsAnswer /\ streamsParsers = 0
    /\ streamsReqs = 1 /\ channel = "open"
    /\ availableStreams = <<Cam, Cam2>>

\* C28: at most one registration request is outstanding at any time, and
\* consumerId is never overwritten by the answer of a superseded registration.
C28_AtMostOneRegistrationOutstanding ==
    [][/\ consumerReqs' <= 1
       /\ consumerId # NoConsumer /\ consumerId' # NoConsumer
             => consumerId' = consumerId]_vars

===========================================================================
